---- MODULE Spec2Model ----
(***************************************************************************)
(* A model of etfpy: the ETFDBClient constructor and its resilient fetch   *)
(* (etfpy/client/etf_client.py), the section extractors of the same file,  *)
(* its ESG extractor with the sub-page fetches, and the batch description  *)
(* enrichment of etfpy/scripts/scrape_etfs.py.                             *)
(*                                                                         *)
(* Python strings are sequences of one-character strings, so that upper(), *)
(* lower(), strip() and the `in` substring test are computed, not assumed. *)
(***************************************************************************)
EXTENDS Integers, Sequences, FiniteSets, TLC

\* ------------------------------------------------------------------ bounds
MaxTickerLen == 2
MaxTextLen == 2
MaxClients == 2

\* ------------------------------------------------------------ Python str
\* str.upper() / str.lower() on one character.
UpperCh(c) ==
  CASE c = "a" -> "A" [] c = "b" -> "B" [] c = "c" -> "C" [] c = "d" -> "D"
    [] c = "h" -> "H" [] c = "x" -> "X" [] OTHER -> c

LowerCh(c) ==
  CASE c = "A" -> "a" [] c = "B" -> "b" [] c = "C" -> "c" [] c = "D" -> "d"
    [] c = "H" -> "h" [] c = "X" -> "x" [] OTHER -> c

UpperStr(s) == [i \in 1..Len(s) |-> UpperCh(s[i])]

LowerStr(s) == [i \in 1..Len(s) |-> LowerCh(s[i])]

\* Python's `p in s` on strings.
Contains(s, p) ==
  \E i \in 0..(Len(s) - Len(p)) : \A j \in 1..Len(p) : s[i + j] = p[j]

StartsWith(s, p) ==
  Len(p) <= Len(s) /\ \A j \in 1..Len(p) : s[j] = p[j]

SeqsUpTo(S, n) == UNION {[1..k -> S] : k \in 0..n}

\* ------------------------------------------------------ identifier catalog
\* data/etfs/etfs_list.json as _load_available_etfs returns it.
load_available_etfs ==
  << [symbol |-> <<"A", "B">>, asset_class |-> "Equity"],
     [symbol |-> <<"B">>, asset_class |-> "Bond"] >>

get_available_etfs_list ==
  [i \in 1..Len(load_available_etfs) |-> load_available_etfs[i].symbol]

InList(x, l) == \E i \in 1..Len(l) : l[i] = x

\* A membership test against the joined catalog text instead of the list.
TickerKnownSubstring(t) ==
  \E i \in 1..Len(get_available_etfs_list) :
    Contains(get_available_etfs_list[i], UpperStr(t))

\* ticker.upper() in get_available_etfs_list()
TickerKnown(t) == InList(UpperStr(t), get_available_etfs_list)

add_meta_information(t) ==
  IF \E i \in 1..Len(load_available_etfs) : load_available_etfs[i].symbol = t
  THEN LET i == CHOOSE k \in 1..Len(load_available_etfs) :
                  /\ load_available_etfs[k].symbol = t
                  /\ \A m \in 1..(k - 1) : load_available_etfs[m].symbol # t
       IN load_available_etfs[i].asset_class
  ELSE "None"

\* ------------------------------------------------------------- the fetcher
\* "h"/"H" abbreviate "<html"/"<HTML"; the markers abbreviate the list of
\* block_markers: one spelled with capitals ("Access Denied") and one in
\* lower case ("captcha").
TickerChars == {"a", "A", "b", "B"}
TextChars == {"c", "C", "x", "h", "H"}
HtmlRoot == <<"h">>
block_markers == << <<"C", "x">>, <<"x", "c">> >>

Tickers == SeqsUpTo(TickerChars, MaxTickerLen) \ {<<>>}
Texts == SeqsUpTo(TextChars, MaxTextLen)
StatusCodes == {200, 403, 404}

\* The marker test without lower-casing the fetched text.
is_blocked_case_sensitive(t) ==
  \E m \in 1..Len(block_markers) : Contains(t, LowerStr(block_markers[m]))

\* any(marker.lower() in text.lower() for marker in block_markers)
is_blocked_text(t) ==
  \E m \in 1..Len(block_markers) :
    Contains(LowerStr(t), LowerStr(block_markers[m]))

\* text = response.text or ""; re-decoded from the raw content when the
\* document root marker is missing (redecoded: what content.decode gives).
decode_text(body, redecoded) ==
  IF Contains(LowerStr(body), HtmlRoot) THEN body ELSE redecoded

\* What content.decode(encoding, errors="replace") may give for a body; it
\* is computed only when the body lacks the document root marker.
Redecodings(body) ==
  IF Contains(LowerStr(body), HtmlRoot) THEN {body} ELSE Texts

NoOutcome == [kind |-> "none", error |-> "", value |-> <<>>]
Returned(v) == [kind |-> "returned", error |-> "", value |-> v]
Raised(e) == [kind |-> "raised", error |-> e, value |-> <<>>]

NoResp == [got |-> FALSE, status |-> 0, text |-> <<>>]
NoAlt == [called |-> FALSE, installed |-> FALSE, requested |-> FALSE,
          status |-> 0, text |-> <<>>]

VARIABLES
  ticker,        \* the constructor's argument
  pc,            \* position of the constructor / _fetch_html
  self_ticker,   \* self.ticker (<<>> until set)
  asset_class,   \* self.asset_class
  log,           \* what the client did so far, in order
  text,          \* _fetch_html's local `text`
  resp,          \* the target GET's response; got: its text was read and
                 \* decoded (status 200), text: that decoded text
  is_blocked,    \* _fetch_html's local `is_blocked`
  alt,           \* what the alternate engine did in _try_cloudscraper
  altCalls,      \* calls of _try_cloudscraper in this _fetch_html
  outcome,       \* how the constructor ended
  debug_path,    \* whether self.debug_html_path names a file
  cache_filled,  \* whether lru_cache holds get_available_etfs_list's result
  file_reads,    \* how often the process has read etfs_list.json
  nclients       \* how many clients the process has constructed

clientVars ==
  <<ticker, pc, self_ticker, asset_class, log, text, resp, is_blocked, alt,
    altCalls, outcome, debug_path, cache_filled, file_reads, nclients>>

VARIABLES
  etfs,          \* the list get_all_etfs returned, enriched in place
  etfs0,         \* that list as it was returned
  nsubmitted,    \* how many tasks the orchestrator has submitted
  tpc,           \* each task's position
  fut,           \* each task's future: "pending", "ok" or "exc"
  failed,        \* whether the task's client chain raised
  nwrites,       \* how often each entry's description was assigned
  completed,     \* the nonlocal counter
  progress_lock, \* the task holding the lock (0: free)
  progress_logs, \* the counter values the progress messages reported
  collected,     \* the futures whose result() the orchestrator has taken
  mainpc,        \* the orchestrator's position
  file,          \* what json.dump wrote
  completed_read \* the value of `completed` that each task's += has loaded

batchVars ==
  <<etfs, etfs0, nsubmitted, tpc, fut, failed, nwrites, completed,
    progress_lock, progress_logs, collected, mainpc, file, completed_read>>

VARIABLES
  doc,           \* self._soup: the parsed document the extractors read
  call,          \* the extractor that was called ("none": not yet)
  ret            \* how that call ended

extractVars == <<doc, call, ret>>

VARIABLES
  self_soup,     \* self._soup as the ESG extractor reads it
  epc,           \* position of the call of _esg
  url_index,     \* the sub-page URL _esg_soup's loop is at
  fetched,       \* how this call's sub-page fetches ended, in order
  esg_soup,      \* the soup _esg_soup returned to _esg
  esg_rets       \* what the calls of _esg returned, in order

esgVars == <<self_soup, epc, url_index, fetched, esg_soup, esg_rets>>

vars == <<clientVars, batchVars, extractVars, esgVars>>

IsRequest(e) == e \in {"prime", "get", "alt"}
Requests(l) == SelectSeq(l, IsRequest)

ClientInitState ==
  /\ ticker \in Tickers
  /\ pc = "new"
  /\ self_ticker = <<>>
  /\ asset_class = "None"
  /\ log = <<>>
  /\ text = <<>>
  /\ resp = NoResp
  /\ is_blocked = FALSE
  /\ alt = NoAlt
  /\ altCalls = 0
  /\ outcome = NoOutcome
  /\ debug_path \in BOOLEAN
  /\ cache_filled = FALSE
  /\ file_reads = 0
  /\ nclients = 1

\* functools.lru_cache on get_available_etfs_list: it calls
\* _load_available_etfs, which reads the file, on a miss only.
lookup_reads(filled) == IF filled THEN 0 ELSE 1

\* _add_meta_information calls _load_available_etfs itself, for a ticker
\* that passed the membership test.
meta_reads(known) == IF known THEN 1 ELSE 0

\* ETFDBClient.__init__ up to the call of _make_soup_request.
ClientInit ==
  /\ pc = "new"
  /\ cache_filled' = TRUE
  /\ file_reads' = file_reads + lookup_reads(cache_filled)
                     + meta_reads(TickerKnown(ticker))
  /\ IF TickerKnown(ticker)
     THEN /\ self_ticker' = UpperStr(ticker)
          /\ asset_class' = add_meta_information(UpperStr(ticker))
          /\ pc' = "prime"
          /\ log' = Append(log, "session")
          /\ UNCHANGED outcome
     ELSE /\ outcome' = Raised("InvalidETFException")
          /\ pc' = "raised"
          /\ log' = Append(log, "session")
          /\ UNCHANGED <<self_ticker, asset_class>>
  /\ UNCHANGED <<ticker, text, resp, is_blocked, alt, altCalls, debug_path,
                 nclients>>
  /\ UNCHANGED <<batchVars, extractVars, esgVars>>

\* What self._session.get may raise.
SessionErrors == {"RequestException", "Timeout"}

\* A priming request outside any try block.
prime_error_uncaught(e) == FALSE

\* try: self._session.get(self._base_url, ...) except Exception as exc:
prime_error_caught(e) == e \in SessionErrors

\* _fetch_html: the header refresh and the priming request, whose failure
\* is only logged.
PrimeRequest ==
  /\ pc = "prime"
  /\ \E e \in {"none"} \cup SessionErrors :
       IF e = "none"
       THEN /\ log' = log \o <<"headers", "prime">>
            /\ pc' = "get"
            /\ UNCHANGED outcome
       ELSE IF prime_error_caught(e)
       THEN /\ log' = log \o <<"headers", "prime", "debug">>
            /\ pc' = "get"
            /\ UNCHANGED outcome
       ELSE /\ log' = log \o <<"headers", "prime">>
            /\ pc' = "raised"
            /\ outcome' = Raised(e)
  /\ UNCHANGED <<ticker, self_ticker, asset_class, text, resp, is_blocked,
                 alt, altCalls, debug_path, cache_filled, file_reads,
                 nclients>>
  /\ UNCHANGED <<batchVars, extractVars, esgVars>>

\* str(response.status_code) and response.reason, as the f-string puts them.
StatusStr(st) ==
  CASE st = 200 -> "200" [] st = 403 -> "403" [] st = 404 -> "404"
    [] OTHER -> "?"

Reason(st) ==
  CASE st = 200 -> "OK" [] st = 403 -> "Forbidden" [] st = 404 -> "Not Found"
    [] OTHER -> ""

\* raise Exception(f"response {response.status_code}: {response.reason}")
response_error(st) ==
  [kind |-> "raised", error |-> "Exception: response",
   value |-> <<StatusStr(st), Reason(st)>>]

\* A status test that lets every response through.
status_is_200_unchecked(st) == TRUE

\* response.status_code != 200 -> raise
status_is_200(st) == st = 200

\* if debug_path: try: path.write_text(...) / path.write_bytes(...); a
\* failure of the write is caught and changes nothing else.
debug_capture(on) == IF on THEN <<"debug_write">> ELSE <<>>

\* _fetch_html: the target GET, the status check, the decoding, the debug
\* capture and the detection of a bot-protection page.
TargetGet ==
  /\ pc = "get"
  /\ \/ /\ \E e \in SessionErrors : outcome' = Raised(e)
        /\ log' = Append(log, "get")
        /\ pc' = "raised"
        /\ UNCHANGED <<text, resp, is_blocked>>
     \/ \E st \in StatusCodes, body \in Texts :
          IF ~status_is_200(st)
          THEN /\ resp' = [got |-> FALSE, status |-> st, text |-> body]
               /\ outcome' = response_error(st)
               /\ log' = Append(log, "get")
               /\ pc' = "raised"
               /\ UNCHANGED <<text, is_blocked>>
          ELSE \E redecoded \in Redecodings(body) :
               LET t == decode_text(body, redecoded) IN
               /\ resp' = [got |-> TRUE, status |-> st, text |-> t]
               /\ text' = t
               /\ log' = Append(log, "get") \o debug_capture(debug_path)
               /\ is_blocked' = is_blocked_text(t)
               /\ IF is_blocked_text(t)
                  THEN pc' = "alt" /\ UNCHANGED outcome
                  ELSE pc' = "done" /\ outcome' = Returned(t)
  /\ UNCHANGED <<ticker, self_ticker, asset_class, alt, altCalls, debug_path,
                 cache_filled, file_reads, nclients>>
  /\ UNCHANGED <<batchVars, extractVars, esgVars>>

\* _fetch_html's blocked branch: _try_cloudscraper, then `if text: return
\* text`, else the bot-protection exception.
Finish(t) ==
  IF t # <<>>
  THEN pc' = "done" /\ outcome' = Returned(t)
  ELSE pc' = "raised" /\ outcome' = Raised("Exception: bot-protection")

TryCloudscraper ==
  /\ pc = "alt"
  /\ altCalls' = altCalls + 1
  /\ \/ \* import cloudscraper fails
        /\ alt' = [NoAlt EXCEPT !.called = TRUE]
        /\ text' = <<>>
        /\ Finish(<<>>)
        /\ UNCHANGED log
     \/ \* scraper.get raises requests.RequestException
        /\ alt' = [NoAlt EXCEPT !.called = TRUE, !.installed = TRUE]
        /\ log' = log \o <<"alt_headers", "alt", "warning">>
        /\ text' = <<>>
        /\ Finish(<<>>)
     \/ \* cloudscraper raises an exception that is no RequestException
        /\ alt' = [NoAlt EXCEPT !.called = TRUE, !.installed = TRUE]
        /\ log' = log \o <<"alt_headers", "alt">>
        /\ pc' = "raised"
        /\ outcome' = Raised("Exception: cloudscraper")
        /\ UNCHANGED text
     \/ \E st \in StatusCodes, body \in Texts :
          LET t == IF st # 200 THEN <<>> ELSE body IN
          /\ alt' = [called |-> TRUE, installed |-> TRUE, requested |-> TRUE,
                     status |-> st, text |-> body]
          /\ log' = log \o <<"alt_headers", "alt">>
                        \o (IF st = 200
                            THEN debug_capture(debug_path)
                            ELSE <<>>)
          /\ text' = t
          /\ Finish(t)
  /\ UNCHANGED <<ticker, self_ticker, asset_class, resp, is_blocked,
                 debug_path, cache_filled, file_reads, nclients>>
  /\ UNCHANGED <<batchVars, extractVars, esgVars>>

\* The construction has ended and its client is dropped; the lru_cache and
\* the file stay as they are.
EndClient ==
  /\ pc \in {"done", "raised"}
  /\ nclients < MaxClients
  /\ ticker' = <<>>
  /\ debug_path' = FALSE
  /\ pc' = "ended"
  /\ self_ticker' = <<>>
  /\ asset_class' = "None"
  /\ log' = <<>>
  /\ text' = <<>>
  /\ resp' = NoResp
  /\ is_blocked' = FALSE
  /\ alt' = NoAlt
  /\ altCalls' = 0
  /\ outcome' = NoOutcome
  /\ UNCHANGED <<cache_filled, file_reads, nclients>>
  /\ UNCHANGED <<batchVars, extractVars, esgVars>>

\* The process constructs its next client.
NewClient ==
  /\ pc = "ended"
  /\ nclients' = nclients + 1
  /\ ticker' \in Tickers
  /\ debug_path' \in BOOLEAN
  /\ pc' = "new"
  /\ self_ticker' = <<>>
  /\ asset_class' = "None"
  /\ log' = <<>>
  /\ text' = <<>>
  /\ resp' = NoResp
  /\ is_blocked' = FALSE
  /\ alt' = NoAlt
  /\ altCalls' = 0
  /\ outcome' = NoOutcome
  /\ UNCHANGED <<cache_filled, file_reads>>
  /\ UNCHANGED <<batchVars, extractVars, esgVars>>

\* ------------------------------------------------------- batch enrichment
MaxEtfs == 3
MaxPending == 2
max_workers == 4
ProgressEvery == 50

Unset == <<"unset">>
EntrySymbols == {<<>>, <<"B">>, <<"a">>}
Descriptions == {<<>>, <<"d">>}

Entry(i, sym) ==
  [oid |-> i, symbol |-> sym, asset_class |-> "Equity", description |-> Unset]

\* What get_all_etfs may return: a list of distinct dicts.
Catalogs ==
  UNION {{[i \in 1..n |-> Entry(i, f[i])] : f \in [1..n -> EntrySymbols]} :
           n \in 0..MaxEtfs}

ExceptionSubclasses ==
  {"InvalidETFException", "RequestException", "Exception: response",
   "Exception: bot-protection"}

\* How ETFDBClient(symbol)._description() may end.
ChainOutcomes(sym) ==
  IF ~TickerKnown(sym)
  THEN {Raised("InvalidETFException")}
  ELSE {Raised(e) : e \in ExceptionSubclasses \ {"InvalidETFException"}}
         \cup {Returned(d) : d \in Descriptions}

\* An except clause naming the client's own exception only.
caught_invalid_only(e) == e = "InvalidETFException"

\* except Exception:
caught(e) == e \in ExceptionSubclasses

\* The closure reading the loop variable when it runs, not when submitted.
write_description_late_binding(es, i, d) ==
  [es EXCEPT ![Len(es)].description = d]

\* etf["description"] = d, on the dict the task was submitted with.
write_description(es, i, d) == [es EXCEPT ![i].description = d]

Tasks == 1..Len(etfs0)
Active(i) ==
  tpc[i] \in {"running", "wantlock", "locked", "loaded", "stored", "counted"}

\* A pool that is left without waiting for its futures.
pool_not_joined == TRUE

\* The as_completed loop has yielded every future, and the with block's
\* exit (shutdown(wait=True)) has waited for every task.
pool_joined ==
  /\ \A i \in Tasks : collected[i]
  /\ \A i \in Tasks : tpc[i] = "done"

BatchInitState ==
  /\ etfs0 \in Catalogs
  /\ etfs = etfs0
  /\ nsubmitted = 0
  /\ tpc = [i \in 1..Len(etfs0) |-> "new"]
  /\ fut = [i \in 1..Len(etfs0) |-> "pending"]
  /\ failed = [i \in 1..Len(etfs0) |-> FALSE]
  /\ nwrites = [i \in 1..Len(etfs0) |-> 0]
  /\ completed = 0
  /\ progress_lock = 0
  /\ progress_logs = <<>>
  /\ collected = [i \in 1..Len(etfs0) |-> FALSE]
  /\ mainpc = "submit"
  /\ file = <<>>
  /\ completed_read = [i \in 1..Len(etfs0) |-> 0]

\* executor.submit(_fetch_description, etf), for the next etf of the list.
Submit ==
  /\ mainpc = "submit"
  /\ IF nsubmitted < Len(etfs)
     THEN /\ nsubmitted' = nsubmitted + 1
          /\ tpc' = [tpc EXCEPT ![nsubmitted + 1] = "queued"]
          /\ UNCHANGED mainpc
     ELSE /\ mainpc' = "collect"
          /\ UNCHANGED <<nsubmitted, tpc>>
  /\ UNCHANGED <<etfs, etfs0, fut, failed, nwrites, completed, progress_lock,
                 progress_logs, collected, file>>
  /\ UNCHANGED <<clientVars, extractVars, esgVars, completed_read>>

\* A free worker of the pool takes the task.
StartTask(i) ==
  /\ i \in Tasks
  /\ tpc[i] = "queued"
  /\ Cardinality({j \in Tasks : Active(j)}) < max_workers
  /\ tpc' = [tpc EXCEPT ![i] = "running"]
  /\ UNCHANGED <<etfs, etfs0, nsubmitted, fut, failed, nwrites, completed,
                 progress_lock, progress_logs, collected, mainpc, file>>
  /\ UNCHANGED <<clientVars, extractVars, esgVars, completed_read>>

\* _fetch_description up to the lock: the symbol test, the client chain and
\* the assignment of the description.
FetchDescription(i) ==
  /\ i \in Tasks
  /\ tpc[i] = "running"
  /\ IF etfs[i].symbol = <<>>
     THEN /\ etfs' = write_description(etfs, i, <<>>)
          /\ nwrites' = [nwrites EXCEPT ![i] = @ + 1]
          /\ tpc' = [tpc EXCEPT ![i] = "wantlock"]
          /\ UNCHANGED <<fut, failed>>
     ELSE \E o \in ChainOutcomes(etfs[i].symbol) :
            IF o.kind = "returned"
            THEN /\ etfs' = write_description(etfs, i, o.value)
                 /\ nwrites' = [nwrites EXCEPT ![i] = @ + 1]
                 /\ tpc' = [tpc EXCEPT ![i] = "wantlock"]
                 /\ UNCHANGED <<fut, failed>>
            ELSE IF caught(o.error)
            THEN /\ etfs' = write_description(etfs, i, <<>>)
                 /\ nwrites' = [nwrites EXCEPT ![i] = @ + 1]
                 /\ failed' = [failed EXCEPT ![i] = TRUE]
                 /\ tpc' = [tpc EXCEPT ![i] = "wantlock"]
                 /\ UNCHANGED fut
            ELSE /\ failed' = [failed EXCEPT ![i] = TRUE]
                 /\ fut' = [fut EXCEPT ![i] = "exc"]
                 /\ tpc' = [tpc EXCEPT ![i] = "done"]
                 /\ UNCHANGED <<etfs, nwrites>>
  /\ UNCHANGED <<etfs0, nsubmitted, completed, progress_lock, progress_logs,
                 collected, mainpc, file>>
  /\ UNCHANGED <<clientVars, extractVars, esgVars, completed_read>>

\* A with block that enters whoever holds the lock.
lock_ignored == TRUE

\* Lock.acquire returns when no thread holds the lock.
lock_free == progress_lock = 0

\* with progress_lock:
AcquireLock(i) ==
  /\ i \in Tasks
  /\ tpc[i] = "wantlock"
  /\ lock_free
  /\ progress_lock' = i
  /\ tpc' = [tpc EXCEPT ![i] = "locked"]
  /\ UNCHANGED <<etfs, etfs0, nsubmitted, fut, failed, nwrites, completed,
                 progress_logs, collected, mainpc, file>>
  /\ UNCHANGED <<clientVars, extractVars, esgVars, completed_read>>

\* completed += 1, and the progress message at every 50th.
Increment(i) ==
  /\ i \in Tasks
  /\ tpc[i] = "locked"
  /\ completed' = completed + 1
  /\ progress_logs' =
       IF (completed + 1) % ProgressEvery = 0
       THEN Append(progress_logs, completed + 1) ELSE progress_logs
  /\ tpc' = [tpc EXCEPT ![i] = "counted"]
  /\ UNCHANGED <<etfs, etfs0, nsubmitted, fut, failed, nwrites,
                 progress_lock, collected, mainpc, file>>
  /\ UNCHANGED <<clientVars, extractVars, esgVars, completed_read>>

\* completed += 1 as the interpreter runs it: the load of `completed` ...
LoadCounter(i) ==
  /\ i \in Tasks
  /\ tpc[i] = "locked"
  /\ completed_read' = [completed_read EXCEPT ![i] = completed]
  /\ tpc' = [tpc EXCEPT ![i] = "loaded"]
  /\ UNCHANGED <<etfs, etfs0, nsubmitted, fut, failed, nwrites, completed,
                 progress_lock, progress_logs, collected, mainpc, file>>
  /\ UNCHANGED <<clientVars, extractVars, esgVars>>

\* ... and the store of the loaded value plus one.
StoreCounter(i) ==
  /\ i \in Tasks
  /\ tpc[i] = "loaded"
  /\ completed' = completed_read[i] + 1
  /\ tpc' = [tpc EXCEPT ![i] = "stored"]
  /\ UNCHANGED <<etfs, etfs0, nsubmitted, fut, failed, nwrites,
                 progress_lock, progress_logs, collected, mainpc, file,
                 completed_read>>
  /\ UNCHANGED <<clientVars, extractVars, esgVars>>

\* if completed % 50 == 0: logger.info(..., completed)
LogProgress(i) ==
  /\ i \in Tasks
  /\ tpc[i] = "stored"
  /\ progress_logs' =
       IF completed % ProgressEvery = 0
       THEN Append(progress_logs, completed) ELSE progress_logs
  /\ tpc' = [tpc EXCEPT ![i] = "counted"]
  /\ UNCHANGED <<etfs, etfs0, nsubmitted, fut, failed, nwrites, completed,
                 progress_lock, collected, mainpc, file, completed_read>>
  /\ UNCHANGED <<clientVars, extractVars, esgVars>>

\* The with block releases the lock and the task returns.
ReleaseLock(i) ==
  /\ i \in Tasks
  /\ tpc[i] = "counted"
  /\ progress_lock' = 0
  /\ fut' = [fut EXCEPT ![i] = "ok"]
  /\ tpc' = [tpc EXCEPT ![i] = "done"]
  /\ UNCHANGED <<etfs, etfs0, nsubmitted, failed, nwrites, completed,
                 progress_logs, collected, mainpc, file>>
  /\ UNCHANGED <<clientVars, extractVars, esgVars, completed_read>>

\* for future in as_completed(futures): future.result(), which raises what
\* the task raised.
Collect(i) ==
  /\ i \in Tasks
  /\ mainpc = "collect"
  /\ fut[i] # "pending"
  /\ ~collected[i]
  /\ collected' = [collected EXCEPT ![i] = TRUE]
  /\ mainpc' = IF fut[i] = "exc" THEN "raising" ELSE mainpc
  /\ UNCHANGED <<etfs, etfs0, nsubmitted, tpc, fut, failed, nwrites,
                 completed, progress_lock, progress_logs, file>>
  /\ UNCHANGED <<clientVars, extractVars, esgVars, completed_read>>

\* The end of the with block; an exception of the loop leaves it once the
\* pool has shut down.
ExitPool ==
  /\ IF mainpc = "raising"
     THEN \A i \in Tasks : tpc[i] = "done"
     ELSE mainpc = "collect" /\ pool_joined
  /\ mainpc' = IF mainpc = "raising" THEN "raised" ELSE "dump"
  /\ UNCHANGED <<etfs, etfs0, nsubmitted, tpc, fut, failed, nwrites,
                 completed, progress_lock, progress_logs, collected, file>>
  /\ UNCHANGED <<clientVars, extractVars, esgVars, completed_read>>

\* json.dump(etfs, f)
Dump ==
  /\ mainpc = "dump"
  /\ file' = etfs
  /\ mainpc' = "saved"
  /\ UNCHANGED <<etfs, etfs0, nsubmitted, tpc, fut, failed, nwrites,
                 completed, progress_lock, progress_logs, collected>>
  /\ UNCHANGED <<clientVars, extractVars, esgVars, completed_read>>

\* A run of all_etfs_json on a catalog longer than ProgressEvery, at the
\* moment its first DoneBefore tasks have returned, one after the other, and
\* been collected, and the others wait in the pool's queue.
DoneBefore == ProgressEvery - 1

LongCatalogs ==
  UNION {{[i \in 1..(DoneBefore + n) |->
             Entry(i, IF i <= DoneBefore THEN <<"B">> ELSE f[i - DoneBefore])] :
            f \in [1..n -> EntrySymbols]} : n \in 1..MaxPending}

ProgressInitState ==
  /\ etfs0 \in LongCatalogs
  /\ etfs = [i \in 1..Len(etfs0) |->
               IF i <= DoneBefore
               THEN write_description(etfs0, i, <<"d">>)[i] ELSE etfs0[i]]
  /\ nsubmitted = Len(etfs0)
  /\ tpc = [i \in 1..Len(etfs0) |-> IF i <= DoneBefore THEN "done" ELSE "queued"]
  /\ fut = [i \in 1..Len(etfs0) |-> IF i <= DoneBefore THEN "ok" ELSE "pending"]
  /\ failed = [i \in 1..Len(etfs0) |-> FALSE]
  /\ nwrites = [i \in 1..Len(etfs0) |-> IF i <= DoneBefore THEN 1 ELSE 0]
  /\ completed = DoneBefore
  /\ progress_lock = 0
  /\ progress_logs = <<>>
  /\ collected = [i \in 1..Len(etfs0) |-> i <= DoneBefore]
  /\ mainpc = "collect"
  /\ file = <<>>
  /\ completed_read = [i \in 1..Len(etfs0) |-> IF i <= DoneBefore THEN i - 1 ELSE 0]

BatchIdle ==
  /\ etfs0 = <<>>
  /\ etfs = <<>>
  /\ nsubmitted = 0
  /\ tpc = <<>>
  /\ fut = <<>>
  /\ failed = <<>>
  /\ nwrites = <<>>
  /\ completed = 0
  /\ progress_lock = 0
  /\ progress_logs = <<>>
  /\ collected = <<>>
  /\ mainpc = "idle"
  /\ file = <<>>
  /\ completed_read = <<>>

ClientIdle ==
  /\ ticker = <<>>
  /\ pc = "idle"
  /\ self_ticker = <<>>
  /\ asset_class = "None"
  /\ log = <<>>
  /\ text = <<>>
  /\ resp = NoResp
  /\ is_blocked = FALSE
  /\ alt = NoAlt
  /\ altCalls = 0
  /\ outcome = NoOutcome
  /\ debug_path = FALSE
  /\ cache_filled = FALSE
  /\ file_reads = 0
  /\ nclients = 0

\* ------------------------------------------------------ section extractors
MaxRows == 2
MaxBodyRows == 1
MaxAssetBlocks == 2
MaxCharts == 2
MaxDescParts == 2

\* "B" abbreviates self._base_url, "O" another site's origin, "/p" a path.
base_url == <<"B">>
Hrefs == {<<>>, <<"/p">>, <<"B">>, <<"B", "/p">>, <<"O", "/p">>}

\* dict.update
update_keep_existing(a, b) ==
  [k \in DOMAIN a \cup DOMAIN b |-> IF k \in DOMAIN a THEN a[k] ELSE b[k]]

update(a, b) ==
  [k \in DOMAIN a \cup DOMAIN b |-> IF k \in DOMAIN b THEN b[k] ELSE a[k]]

EmptyDict == [k \in {} |-> ""]
DictOf(S, tag) == [k \in S |-> tag]

\* ---- holdings
NoLink == [a |-> FALSE, has_href |-> FALSE, href |-> <<>>]
Links ==
  {NoLink, [a |-> TRUE, has_href |-> FALSE, href |-> <<>>]}
    \cup {[a |-> TRUE, has_href |-> TRUE, href |-> h] : h \in Hrefs}

\* A <tr>: its ncells <td> elements, whose texts are the column's tag with
\* the row's link as the row's own mark, and its first <a>, if any.
HoldingRows == [ncells : {2, 3, 4}, link : Links]
ColumnTags == <<"s", "n", "w", "x">>
CellTexts(r) == [j \in 1..r.ncells |-> <<ColumnTags[j]>> \o r.link.href]

NoHoldingSection == [div |-> FALSE, tbody |-> FALSE, rows |-> <<>>]
HoldingSections ==
  {NoHoldingSection, [div |-> TRUE, tbody |-> FALSE, rows |-> <<>>]}
    \cup {[div |-> TRUE, tbody |-> TRUE, rows |-> rs] :
            rs \in SeqsUpTo(HoldingRows, MaxRows)}

holding_keys == <<"Symbol", "Holding", "Share">>

\* dict(zip(["Symbol", "Holding", "Share"], [x.text for x in record_texts]))
zip_dict(keys, values) ==
  LET n == IF Len(keys) < Len(values) THEN Len(keys) ELSE Len(values)
  IN [k \in {keys[j] : j \in 1..n} |->
        values[CHOOSE j \in 1..n : keys[j] = k]]

\* Prepending the base URL whatever the link is.
holding_url_always_prefixed(href) == base_url \o href

\* f"{base}{holding_url}" if base not in holding_url else holding_url
holding_url(href) ==
  IF ~Contains(href, base_url) THEN base_url \o href ELSE href

\* One pass of the loop over the rows, for a row whose href lookup did not
\* raise KeyError (no <a>: TypeError, caught, holding_url = "").
row_record(r) ==
  LET href == IF r.link.a THEN r.link.href ELSE <<>>
      url == holding_url(href)
  IN update(zip_dict(holding_keys, CellTexts(r)),
            [k \in {"Url"} |-> IF url = base_url THEN <<>> ELSE url])

\* ETFDBClient._holdings
holdings(d) ==
  LET h == d.holding_section IN
  IF ~h.div \/ ~h.tbody
  THEN Returned(<<>>)
  ELSE IF \E i \in 1..Len(h.rows) :
            h.rows[i].link.a /\ ~h.rows[i].link.has_href
  THEN Raised("KeyError")
  ELSE Returned([i \in 1..Len(h.rows) |-> row_record(h.rows[i])])

\* ---- asset categories, basic info
Keys == {"Symbol", "K"}
BodyTags == <<"body1", "body2", "body3", "body4">>
BodyKeys == {"", "Symbol", "K"}

\* The block's rows as handle_find_all_rows returns them.
AssetBlocks == {DictOf(S, "assets") : S \in {{}, {"K"}}}

NoTickerBody ==
  [where |-> "absent", rowdiv |-> FALSE, rows |-> <<>>, assets |-> <<>>]
TickerBodies ==
  {NoTickerBody}
    \cup {[where |-> w, rowdiv |-> FALSE, rows |-> <<>>, assets |-> bs] :
            w \in {"primary", "variant"},
            bs \in SeqsUpTo(AssetBlocks, MaxAssetBlocks)}
    \cup UNION {{[where |-> w, rowdiv |-> TRUE,
                  rows |-> [i \in 1..Len(ks) |->
                              [key |-> ks[i], value_text |-> BodyTags[i]]],
                  assets |-> bs] :
                   w \in {"primary", "variant"},
                   bs \in SeqsUpTo(AssetBlocks, MaxAssetBlocks)} :
                ks \in SeqsUpTo(BodyKeys, MaxBodyRows)}

\* ETFDBClient._asset_categories
asset_categories(d) ==
  LET theme == d.ticker_body.assets IN
  IF d.ticker_body.where = "absent" THEN Returned(EmptyDict)
  ELSE IF Len(theme) < 1 THEN Returned(EmptyDict)
  ELSE IF Len(theme) < 2 THEN Raised("IndexError")
  ELSE Returned(theme[2])

\* The loop over the page body's rows: if key: basic_information.update(...)
RECURSIVE body_rows(_, _, _)
body_rows(info, rows, i) ==
  IF i > Len(rows) THEN info
  ELSE body_rows(IF rows[i].key # ""
                 THEN update(info, DictOf({rows[i].key}, rows[i].value_text))
                 ELSE info,
                 rows, i + 1)

\* ETFDBClient._basic_info
basic_info(d) ==
  LET b0 == [k \in {"Symbol", "Url"} |->
               IF k = "Symbol" THEN "ticker" ELSE "ticker_url"]
      b1 == IF d.ticker_body.where # "absent" /\ d.ticker_body.rowdiv
            THEN body_rows(b0, d.ticker_body.rows, 1) ELSE b0
      b2 == update(b1, d.profile)
      b3 == update(b2, d.valuation)
      b4 == update(b3, d.trading)
      ac == asset_categories(d)
  IN IF ac.kind = "raised" THEN Raised(ac.error)
     ELSE Returned(update(update(b4, ac.value), d.factset))

\* ---- exposure
NoData == [k \in {"Data"} |-> "not found"]
Charts == [title : {"none", "T", "U"}, series : {"none", "ok", "bad"}]

\* The first chart whose attribute makes the extractor raise, and with what:
\* the titles are read for all charts before any series is parsed.
exposure(d) ==
  LET cs == d.charts
      n == Len(cs)
  IN IF n = 0 THEN Returned(NoData)
     ELSE IF \E i \in 1..n : cs[i].title = "none" THEN Raised("AttributeError")
     ELSE IF \E i \in 1..n : cs[i].series # "ok"
     THEN LET i == CHOOSE k \in 1..n :
                     /\ cs[k].series # "ok"
                     /\ \A m \in 1..(k - 1) : cs[m].series = "ok"
          IN Raised(IF cs[i].series = "none" THEN "TypeError"
                    ELSE "JSONDecodeError")
     ELSE Returned([t \in {cs[i].title : i \in 1..n} |->
                      LET i == CHOOSE k \in 1..n :
                                 /\ cs[k].title = t
                                 /\ \A m \in (k + 1)..n : cs[m].title # t
                      IN BodyTags[i]])

\* ---- description
Absent == [present |-> FALSE, title |-> <<>>, has_text |-> FALSE,
           text |-> <<>>]
Elem(title, has_text, t) ==
  [present |-> TRUE, title |-> title, has_text |-> has_text, text |-> t]

\* The seven candidate containers, in the order of the list.
CandSlots == <<"full-content", "etf-description", "etf-desc",
               ".etf-description", ".description", "section#description",
               ".etf-summary">>
HeadingSlots == <<"heading1", "heading2">>
MetaSlots == <<"description", "og:description", "twitter:description">>
SlotNames ==
  {CandSlots[i] : i \in 1..Len(CandSlots)}
    \cup {HeadingSlots[i] : i \in 1..Len(HeadingSlots)}
    \cup {MetaSlots[i] : i \in 1..Len(MetaSlots)}

\* "D"/"d" abbreviate "Description"/"description" in a heading's text.
HeadingTitles == {<<"D">>, <<"o", "d">>, <<"o">>}
description_word == <<"d">>

\* What an element at a slot may be: a container with its get_text, a
\* heading with its title and the block find_next gives (has_text: a block
\* was found), a meta tag with its content attribute (has_text: it has one).
SlotOptions(s) ==
  IF \E i \in 1..Len(CandSlots) : CandSlots[i] = s
  THEN {Elem(<<>>, TRUE, t) : t \in {<<>>, <<s>>}}
  ELSE IF \E i \in 1..Len(HeadingSlots) : HeadingSlots[i] = s
  THEN {Elem(ti, FALSE, <<>>) : ti \in HeadingTitles}
         \cup {Elem(ti, TRUE, t) : ti \in HeadingTitles, t \in {<<>>, <<s>>}}
  ELSE {Elem(<<>>, FALSE, <<>>)}
         \cup {Elem(<<>>, TRUE, t) :
                 t \in {<<>>, <<" ">>, <<s>>, <<" ", s>>, <<s, " ">>,
                        <<" ", s, " ">>}}

\* The documents with exactly the elements of S present, beside base's.
RECURSIVE Fill(_, _)
Fill(S, base) ==
  IF S = {} THEN {base}
  ELSE LET s == CHOOSE x \in S : TRUE
       IN UNION {Fill(S \ {s}, base @@ (s :> o)) : o \in SlotOptions(s)}

DescSlotSets == {T \in SUBSET SlotNames : Cardinality(T) <= MaxDescParts}

\* str.strip()
RECURSIVE lstrip(_)
lstrip(t) == IF t # <<>> /\ Head(t) = " " THEN lstrip(Tail(t)) ELSE t

RECURSIVE rstrip(_)
rstrip(t) ==
  IF t # <<>> /\ t[Len(t)] = " " THEN rstrip(SubSeq(t, 1, Len(t) - 1)) ELSE t

strip(t) == rstrip(lstrip(t))

\* A strip() that is left out.
strip_nothing(t) == t

\* meta.get("content", "").strip()
meta_content(t) == strip(t)

\* The loops `for x in ...: if text: return text` over the texts in order.
RECURSIVE first_text(_, _)
first_text(texts, i) ==
  IF i > Len(texts) THEN <<>>
  ELSE IF texts[i] # <<>> THEN texts[i]
  ELSE first_text(texts, i + 1)

\* soup.find(...) for the element at a slot: None when the document has none.
desc_elem(d, s) == IF s \in DOMAIN d.desc THEN d.desc[s] ELSE Absent

candidate_text(e) == IF e.present THEN e.text ELSE <<>>

heading_text(e) ==
  IF e.present /\ Contains(LowerStr(e.title), description_word) /\ e.has_text
  THEN e.text ELSE <<>>

meta_text(e) ==
  IF e.present /\ e.has_text /\ e.text # <<>> THEN meta_content(e.text)
  ELSE <<>>

\* ETFDBClient._description
description(d) ==
  LET c == first_text([i \in 1..Len(CandSlots) |->
                         candidate_text(desc_elem(d, CandSlots[i]))], 1)
      h == first_text([i \in 1..Len(HeadingSlots) |->
                         heading_text(desc_elem(d, HeadingSlots[i]))], 1)
      m == first_text([i \in 1..Len(MetaSlots) |->
                         meta_text(desc_elem(d, MetaSlots[i]))], 1)
  IN Returned(IF c # <<>> THEN c ELSE IF h # <<>> THEN h ELSE m)

\* ---- the documents
NoDesc == [s \in {} |-> Absent]
EmptyDoc ==
  [holding_section |-> NoHoldingSection, ticker_body |-> NoTickerBody,
   profile |-> EmptyDict, valuation |-> EmptyDict, trading |-> EmptyDict,
   factset |-> EmptyDict, charts |-> <<>>, desc |-> NoDesc]

SectionDicts(tag) == {DictOf(S, tag) : S \in SUBSET Keys}

\* A document holds the sections of one family; the others are missing.
ExtractInitState ==
  /\ \/ \E h \in HoldingSections : doc = [EmptyDoc EXCEPT !.holding_section = h]
     \/ \E tb \in TickerBodies, p \in SectionDicts("profile"),
           v \in {EmptyDict, DictOf({"K"}, "valuation")},
           t \in {EmptyDict, DictOf({"K"}, "trading")},
           f \in SectionDicts("factset") :
          doc = [EmptyDoc EXCEPT !.ticker_body = tb, !.profile = p,
                                 !.valuation = v, !.trading = t,
                                 !.factset = f]
     \/ \E cs \in SeqsUpTo(Charts, MaxCharts) :
          doc = [EmptyDoc EXCEPT !.charts = cs]
     \/ \E S \in DescSlotSets : \E dd \in Fill(S, NoDesc) :
          doc = [EmptyDoc EXCEPT !.desc = dd]
  /\ call = "none"
  /\ ret = NoOutcome

ExtractIdle ==
  /\ doc = <<>>
  /\ call = "idle"
  /\ ret = NoOutcome

\* ------------------------------------------------------------------- ESG
MaxEsgTables == 2

\* _prepare_esg_urls, as the paths after the ticker's page.
esg_urls == <<"esg/", "esg">>

\* The ids of the fallback loop of _esg.
legacy_table_ids ==
  <<"esg-table", "esg-ratings-table", "esg-score-table", "esg-scores">>

LegacyIds == {legacy_table_ids[i] : i \in 1..Len(legacy_table_ids)}

\* A <table> of a soup: its id ("": none; "t": an id outside the legacy
\* list), whether it lies inside the ESG container, what
\* handle_find_all_rows gives for its rows and what handle_tbody_thead gives
\* for its id. A table outside the container is found by its legacy id only.
EsgTable(id, inside, rows, thead) ==
  [id |-> id, inside |-> inside, rows |-> rows, thead |-> thead]

RowsData == {EmptyDict, DictOf({"K"}, "rows")}
TheadData == {EmptyDict, DictOf({"K"}, "thead")}

EsgTableOptions ==
  {EsgTable("", TRUE, DictOf({"K"}, "rows"), EmptyDict)}
    \cup {EsgTable("t", TRUE, r, EmptyDict) : r \in RowsData}
    \cup {EsgTable(id, FALSE, EmptyDict, h) : id \in LegacyIds, h \in TheadData}
    \cup {EsgTable(id, TRUE, r, h) :
            id \in LegacyIds, r \in RowsData, h \in TheadData}

\* The sets of at most n tables with different ids.
RECURSIVE EsgTableSets(_)
EsgTableSets(n) ==
  IF n = 0 THEN {{}}
  ELSE LET P == EsgTableSets(n - 1)
       IN P \cup UNION {{T \cup {t} :
                           t \in {u \in EsgTableOptions :
                                    \A v \in T : v.id # u.id}} : T \in P}

\* What _parse_esg_blocks finds in the container's score and theme blocks.
EsgBlocks == {EmptyDict, [k \in {"scores"} |-> DictOf({"K"}, "score")]}

\* A soup without any element whose id or class matches "esg": it has no
\* container, no table with an ESG id and no structured block.
NoSoup == [elem |-> FALSE, tables |-> {}, blocks |-> EmptyDict]

EsgSoups ==
  {NoSoup}
    \cup {[elem |-> TRUE, tables |-> T, blocks |-> b] :
            T \in EsgTableSets(MaxEsgTables), b \in EsgBlocks}

\* soup.find(id=re.compile("esg", re.I)) or soup.find(class_=...)
has_esg(soup) == soup.elem

\* An _esg_soup that never settles for the document it has.
uses_own_document_never(soup) == FALSE

\* _esg_soup's first test, on self._soup.
uses_own_document(soup) == has_esg(soup)

\* The dict a loop builds with results[table_id] = data.
TableDict(T, field) ==
  [id \in {t.id : t \in T} |-> (CHOOSE t \in T : t.id = id)[field]]

\* for table in tables: if table_id and data: results[table_id] = data
container_tables(soup) ==
  TableDict({t \in soup.tables : t.inside /\ t.id # "" /\ t.rows # EmptyDict},
            "rows")

\* for table_id in [...]: if soup.find("table", {"id": table_id}) and data
legacy_tables(soup) ==
  TableDict({t \in soup.tables : t.id \in LegacyIds /\ t.thead # EmptyDict},
            "thead")

\* The stages of _esg with the structured blocks before the legacy ids.
esg_result_blocks_first(soup) ==
  IF container_tables(soup) # EmptyDict THEN container_tables(soup)
  ELSE IF soup.blocks # EmptyDict THEN soup.blocks
  ELSE legacy_tables(soup)

\* _esg after _esg_soup: each stage runs `if not results`.
esg_result(soup) ==
  IF container_tables(soup) # EmptyDict THEN container_tables(soup)
  ELSE IF legacy_tables(soup) # EmptyDict THEN legacy_tables(soup)
  ELSE soup.blocks

\* How _fetch_html(url) may end for a sub-page: an exception, or a text
\* that parses into a soup.
FetchKind(o) ==
  IF o.kind = "raised" THEN "raised"
  ELSE IF has_esg(o.value) THEN "esg" ELSE "no_esg"

SubPageOutcomes ==
  {Raised(e) : e \in {"RequestException", "Exception: response",
                      "Exception: bot-protection"}}
    \cup {Returned(sp) : sp \in EsgSoups}

EsgInitState ==
  /\ self_soup \in EsgSoups
  /\ epc = "new"
  /\ url_index = 0
  /\ fetched = <<>>
  /\ esg_soup = NoSoup
  /\ esg_rets = <<>>

EsgIdle ==
  /\ self_soup = <<>>
  /\ epc = "idle"
  /\ url_index = 0
  /\ fetched = <<>>
  /\ esg_soup = <<>>
  /\ esg_rets = <<>>

\* A call of _esg, the first or the one after it: _esg_soup up to its loop.
EsgSoupStart ==
  /\ epc = "new" \/ (epc = "returned" /\ Len(esg_rets) < 2)
  /\ fetched' = <<>>
  /\ IF uses_own_document(self_soup)
     THEN /\ esg_soup' = self_soup
          /\ epc' = "parse"
          /\ url_index' = 0
     ELSE /\ esg_soup' = NoSoup
          /\ epc' = "fetch"
          /\ url_index' = 1
  /\ UNCHANGED <<self_soup, esg_rets>>
  /\ UNCHANGED <<clientVars, batchVars, extractVars>>

\* One pass of _esg_soup's loop over the sub-page URLs; after the last URL
\* the warning, and self._soup is returned.
EsgFetch ==
  /\ epc = "fetch"
  /\ \E o \in SubPageOutcomes :
       /\ fetched' = Append(fetched, [url |-> esg_urls[url_index],
                                      kind |-> FetchKind(o)])
       /\ IF o.kind = "returned" /\ has_esg(o.value)
          THEN /\ esg_soup' = o.value
               /\ epc' = "parse"
               /\ UNCHANGED url_index
          ELSE IF url_index < Len(esg_urls)
          THEN /\ url_index' = url_index + 1
               /\ UNCHANGED <<epc, esg_soup>>
          ELSE /\ esg_soup' = self_soup
               /\ epc' = "parse"
               /\ UNCHANGED url_index
  /\ UNCHANGED <<self_soup, esg_rets>>
  /\ UNCHANGED <<clientVars, batchVars, extractVars>>

\* _esg on the soup _esg_soup returned.
EsgParse ==
  /\ epc = "parse"
  /\ esg_rets' = Append(esg_rets, esg_result(esg_soup))
  /\ epc' = "returned"
  /\ UNCHANGED <<self_soup, url_index, fetched, esg_soup>>
  /\ UNCHANGED <<clientVars, batchVars, extractVars>>

RunHoldings ==
  /\ call = "none"
  /\ call' = "holdings"
  /\ ret' = holdings(doc)
  /\ UNCHANGED <<doc, clientVars, batchVars, esgVars>>

RunAssetCategories ==
  /\ call = "none"
  /\ call' = "asset_categories"
  /\ ret' = asset_categories(doc)
  /\ UNCHANGED <<doc, clientVars, batchVars, esgVars>>

RunExposure ==
  /\ call = "none"
  /\ call' = "exposure"
  /\ ret' = exposure(doc)
  /\ UNCHANGED <<doc, clientVars, batchVars, esgVars>>

RunDescription ==
  /\ call = "none"
  /\ call' = "description"
  /\ ret' = description(doc)
  /\ UNCHANGED <<doc, clientVars, batchVars, esgVars>>

RunBasicInfo ==
  /\ call = "none"
  /\ call' = "basic_info"
  /\ ret' = basic_info(doc)
  /\ UNCHANGED <<doc, clientVars, batchVars, esgVars>>

\* ---------------------------------------------------------- specifications
\* One client: construction and the fetch of its page.
Init == ClientInitState /\ BatchIdle /\ ExtractIdle /\ EsgIdle

Next ==
  ClientInit \/ PrimeRequest \/ TargetGet \/ TryCloudscraper \/ EndClient
    \/ NewClient

Spec == Init /\ [][Next]_vars

\* One run of all_etfs_json.
BatchInit == BatchInitState /\ ClientIdle /\ ExtractIdle /\ EsgIdle

BatchNext ==
  \/ Submit
  \/ \E i \in 1..MaxEtfs :
       \/ StartTask(i)
       \/ FetchDescription(i)
       \/ AcquireLock(i)
       \/ Increment(i)
       \/ ReleaseLock(i)
       \/ Collect(i)
  \/ ExitPool
  \/ Dump

BatchSpec == BatchInit /\ [][BatchNext]_vars

\* One extractor applied to one parsed document.
ExtractInit == ExtractInitState /\ ClientIdle /\ BatchIdle /\ EsgIdle

ExtractNext ==
  RunHoldings \/ RunAssetCategories \/ RunExposure \/ RunDescription
    \/ RunBasicInfo

ExtractSpec == ExtractInit /\ [][ExtractNext]_vars

\* Two successive calls of _esg on one client.
EsgInit == EsgInitState /\ ClientIdle /\ BatchIdle /\ ExtractIdle

EsgNext == EsgSoupStart \/ EsgFetch \/ EsgParse

EsgSpec == EsgInit /\ [][EsgNext]_vars

\* The end of a long run of all_etfs_json, with the counter's += in its
\* steps.
ProgressInit == ProgressInitState /\ ClientIdle /\ ExtractIdle /\ EsgIdle

ProgressNext ==
  \/ \E i \in 1..(DoneBefore + MaxPending) :
       \/ StartTask(i)
       \/ FetchDescription(i)
       \/ AcquireLock(i)
       \/ LoadCounter(i)
       \/ StoreCounter(i)
       \/ LogProgress(i)
       \/ ReleaseLock(i)
       \/ Collect(i)
  \/ ExitPool
  \/ Dump

ProgressSpec == ProgressInit /\ [][ProgressNext]_vars

\* Every worker thread and the orchestrator keep being scheduled, and every
\* request returns or fails.
FairBatchSpec == BatchSpec /\ WF_vars(BatchNext)

\* ------------------------------------------------------------------ claims
\* Some marker occurs in t, whatever the case of t's letters.
HasMarkerAnyCase(t) ==
  \E m \in 1..Len(block_markers) :
    \E i \in 0..(Len(t) - Len(block_markers[m])) :
      \A j \in 1..Len(block_markers[m]) :
        LowerCh(t[i + j]) = LowerCh(block_markers[m][j])

\* C1: constructing a client for an identifier whose upper-cased form is not
\* in the catalog ends with the invalid-identifier error, and no request
\* (priming, target GET, alternate engine) has been issued by then.
C1_InvalidIdentifierBeforeNetwork ==
  (pc \notin {"new", "ended"}
     /\ ~InList(UpperStr(ticker), get_available_etfs_list)) =>
    /\ pc = "raised"
    /\ outcome = Raised("InvalidETFException")
    /\ Requests(log) = <<>>

C1_Witness ==
  /\ pc = "raised"
  /\ outcome = Raised("InvalidETFException")
  /\ ticker = <<"a">>

\* C2: in a call of _fetch_html whose fetched (decoded) text contains a
\* bot-protection marker in any letter case, the attempt is classified as
\* blocked and _try_cloudscraper is invoked exactly once: not yet while the
\* call is at the escalation, once when the call has ended, never more.
C2_BlockedEscalatesExactlyOnce ==
  /\ altCalls <= 1
  /\ (resp.got /\ HasMarkerAnyCase(resp.text)) =>
       /\ is_blocked
       /\ pc \in {"alt", "done", "raised"}
       /\ (pc = "alt") => (altCalls = 0)
       /\ (pc \in {"done", "raised"}) => (altCalls = 1 /\ alt.called)

C2_Witness ==
  /\ pc \in {"done", "raised"}
  /\ resp.got
  /\ resp.text = <<"x", "C">>
  /\ altCalls = 1

\* C3: after a blocked primary attempt the fetch fails with the blocked
\* error when the alternate engine is not installed, returns a non-200
\* status or returns text that itself contains a marker, and otherwise
\* returns exactly the alternate engine's text. Stated for the calls in
\* which the engine is missing or has answered, with some text when its
\* status is 200.
C3_AlternateEngineDecides ==
  (/\ is_blocked
   /\ pc \in {"done", "raised"}
   /\ alt.installed => (alt.requested /\ (alt.status = 200 => alt.text # <<>>))) =>
    IF ~alt.installed \/ alt.status # 200 \/ HasMarkerAnyCase(alt.text)
    THEN outcome = Raised("Exception: bot-protection")
    ELSE outcome = Returned(alt.text)

\* C4: the collection keeps its N entry objects in their order through the
\* whole run; an entry differs from the one submitted in its description
\* only, and only once its own task has assigned it.
C4_SameEntriesInOrder ==
  /\ Len(etfs) = Len(etfs0)
  /\ \A i \in 1..Len(etfs0) :
       /\ etfs[i].oid = etfs0[i].oid
       /\ etfs[i].symbol = etfs0[i].symbol
       /\ etfs[i].asset_class = etfs0[i].asset_class
       /\ DOMAIN etfs[i] = DOMAIN etfs0[i]
       /\ (etfs[i].description # etfs0[i].description) =>
            tpc[i] \in {"wantlock", "locked", "counted", "done"}

C4_Witness ==
  /\ mainpc = "saved"
  /\ Len(etfs) = MaxEtfs
  /\ \E i, j \in Tasks :
       /\ i < j
       /\ failed[j] /\ ~failed[i]
       /\ etfs[i].description = <<"d">>
       /\ etfs[j].description = <<>>

\* C5: whatever raises in an entry's chain is caught in that entry's task
\* and leaves description = "" in that entry; no future holds an exception,
\* the orchestrator never raises, and the batch completes.
C5_FailuresContained ==
  /\ [](/\ mainpc \notin {"raising", "raised"}
        /\ \A i \in Tasks :
             /\ fut[i] # "exc"
             /\ failed[i] => (etfs[i].description = <<>> /\ tpc[i] # "running"))
  /\ <>(mainpc = "saved")

C5_Witness ==
  /\ mainpc = "saved"
  /\ \E i, j \in Tasks :
       /\ failed[i] /\ ~TickerKnown(etfs[i].symbol)
       /\ failed[j] /\ TickerKnown(etfs[j].symbol)
       /\ file[i].description = <<>>
       /\ file[j].description = <<>>

\* C6: the catalog is written only after every task has finished; when it
\* is written each entry's description has been assigned exactly once, and
\* what was written is the catalog as it stays.
C6_DumpAfterAllTasks ==
  (mainpc \in {"dump", "saved"}) =>
    /\ \A i \in Tasks :
         /\ tpc[i] = "done"
         /\ nwrites[i] = 1
         /\ etfs[i].description # Unset
    /\ (mainpc = "saved") => (file = etfs)

C6_Witness ==
  /\ mainpc = "saved"
  /\ Len(file) = MaxEtfs
  /\ \A i \in Tasks : nwrites[i] = 1

\* The sections _basic_info merges, in its order, each as the dict it
\* contributes: a body key's value is that of the last row carrying it.
C7_BodyPairs(d) ==
  LET tb == d.ticker_body
      on == tb.where # "absent" /\ tb.rowdiv
      ks == IF on THEN {tb.rows[i].key : i \in 1..Len(tb.rows)} \ {""} ELSE {}
  IN [k \in ks |->
        tb.rows[CHOOSE i \in 1..Len(tb.rows) :
                  /\ tb.rows[i].key = k
                  /\ \A j \in (i + 1)..Len(tb.rows) : tb.rows[j].key # k].value_text]

C7_Sections(d) ==
  << [Symbol |-> "ticker", Url |-> "ticker_url"],
     C7_BodyPairs(d),
     d.profile,
     d.valuation,
     d.trading,
     IF d.ticker_body.where # "absent" /\ Len(d.ticker_body.assets) >= 2
     THEN d.ticker_body.assets[2] ELSE EmptyDict,
     d.factset >>

\* C7: the record _basic_info returns holds exactly the keys its sections
\* produce, each with the value of the section latest in the order injected,
\* page body, profile, valuation, trading stats, asset categories,
\* classification; it raises only where the asset categories extractor does,
\* never for a collision of keys.
C7_LaterSectionWins ==
  (call = "basic_info") =>
    LET src == C7_Sections(doc) IN
    /\ (ret.kind = "raised") =>
         (doc.ticker_body.where # "absent" /\ Len(doc.ticker_body.assets) = 1)
    /\ (ret.kind = "returned") =>
         /\ DOMAIN ret.value = UNION {DOMAIN src[i] : i \in 1..Len(src)}
         /\ \A k \in DOMAIN ret.value :
              \E i \in 1..Len(src) :
                /\ k \in DOMAIN src[i]
                /\ ret.value[k] = src[i][k]
                /\ \A j \in (i + 1)..Len(src) : k \notin DOMAIN src[j]

C7_Witness ==
  /\ call = "basic_info"
  /\ ret.kind = "returned"
  /\ "K" \in DOMAIN doc.profile
  /\ "K" \in DOMAIN doc.trading
  /\ "Symbol" \in DOMAIN doc.profile
  /\ doc.ticker_body.rowdiv
  /\ Len(doc.ticker_body.rows) = 1
  /\ doc.ticker_body.rows[1].key = "Symbol"
  /\ ret.value["Symbol"] = "profile"
  /\ ret.value["K"] = "trading"

\* C8: on a document with missing or malformed sections (a container absent,
\* exactly one ticker-assets block, a holdings link without href, a chart
\* table without data-title or data-chart-series) the section extractors
\* return and never raise.
C8_ExtractorsNeverRaise ==
  (call \in {"asset_categories", "holdings", "exposure"}) =>
    ret.kind = "returned"

\* A holdings table whose rows each have symbol, name, share and a link.
C9_WellFormed(d) ==
  /\ d.holding_section.div
  /\ d.holding_section.tbody
  /\ \A i \in 1..Len(d.holding_section.rows) :
       /\ d.holding_section.rows[i].ncells >= 3
       /\ d.holding_section.rows[i].link.a
       /\ d.holding_section.rows[i].link.has_href

C9_Absolute(u) == u # <<>> /\ u[1] \in {"B", "O"}

\* C9 as stated: n rows give n row-records in order with the keys Symbol,
\* Name, Share and Url, Url being absolute: the base URL before a relative
\* link, an absolute link unchanged.
C9_KeysSymbolNameShareUrl ==
  (call = "holdings" /\ C9_WellFormed(doc)) =>
    /\ ret.kind = "returned"
    /\ Len(ret.value) = Len(doc.holding_section.rows)
    /\ \A i \in 1..Len(doc.holding_section.rows) :
         LET h == doc.holding_section.rows[i].link.href IN
         /\ DOMAIN ret.value[i] = {"Symbol", "Name", "Share", "Url"}
         /\ ret.value[i]["Url"] = IF C9_Absolute(h) THEN h ELSE base_url \o h

\* C9, amended: n well-formed rows give n row-records in table order, each
\* with exactly the keys Symbol, Holding, Share and Url holding the row's
\* first three cells and its address: the link unchanged when it contains
\* the base URL, the base URL before it when it does not, and the empty
\* string when that address is the base URL itself.
C9_KeysSymbolHoldingShareUrl ==
  (call = "holdings" /\ C9_WellFormed(doc)) =>
    /\ ret.kind = "returned"
    /\ Len(ret.value) = Len(doc.holding_section.rows)
    /\ \A i \in 1..Len(doc.holding_section.rows) :
         LET r == doc.holding_section.rows[i]
             h == r.link.href
             onsite == \E j \in 1..Len(h) : h[j] = "B"
             address == IF onsite THEN h ELSE <<"B">> \o h
         IN /\ DOMAIN ret.value[i] = {"Symbol", "Holding", "Share", "Url"}
            /\ ret.value[i]["Symbol"] = <<"s">> \o h
            /\ ret.value[i]["Holding"] = <<"n">> \o h
            /\ ret.value[i]["Share"] = <<"w">> \o h
            /\ ret.value[i]["Url"] = IF address = <<"B">> THEN <<>> ELSE address

C9_Witness ==
  /\ call = "holdings"
  /\ C9_WellFormed(doc)
  /\ Len(doc.holding_section.rows) = MaxRows
  /\ doc.holding_section.rows[1].link.href = <<"/p">>
  /\ doc.holding_section.rows[2].link.href = <<"B", "/p">>
  /\ Len(ret.value) = MaxRows
  /\ ret.value[1]["Url"] = <<"B", "/p">>
  /\ ret.value[2]["Url"] = <<"B", "/p">>

\* r is t without its leading and trailing spaces.
C10_Stripped(t, r) ==
  IF \A i \in 1..Len(t) : t[i] = " "
  THEN r = <<>>
  ELSE LET a == CHOOSE i \in 1..Len(t) :
                  t[i] # " " /\ \A j \in 1..(i - 1) : t[j] = " "
           b == CHOOSE i \in 1..Len(t) :
                  t[i] # " " /\ \A j \in (i + 1)..Len(t) : t[j] = " "
       IN r = [j \in 1..(b - a + 1) |-> t[a + j - 1]]

\* The text each stage finds, in the order of the stages: the candidate
\* containers, the blocks after the headings naming a description, the meta
\* tags (their content as it is, or stripped).
C10_Found(d, stripped) ==
  [i \in 1..(Len(CandSlots) + Len(HeadingSlots) + Len(MetaSlots)) |->
     IF i <= Len(CandSlots)
     THEN LET e == desc_elem(d, CandSlots[i])
          IN IF e.present THEN e.text ELSE <<>>
     ELSE IF i <= Len(CandSlots) + Len(HeadingSlots)
     THEN LET e == desc_elem(d, HeadingSlots[i - Len(CandSlots)])
          IN IF /\ e.present
                /\ e.has_text
                /\ \E j \in 1..Len(e.title) : e.title[j] \in {"d", "D"}
             THEN e.text ELSE <<>>
     ELSE LET e == desc_elem(d, MetaSlots[i - Len(CandSlots) - Len(HeadingSlots)])
          IN IF ~(e.present /\ e.has_text) THEN <<>>
             ELSE IF stripped
             THEN CHOOSE r \in {SubSeq(e.text, a, b) :
                                  a \in 1..(Len(e.text) + 1),
                                  b \in 0..Len(e.text)} :
                    C10_Stripped(e.text, r)
             ELSE e.text]

C10_FirstNonEmpty(found, r) ==
  \/ r = <<>> /\ \A i \in 1..Len(found) : found[i] = <<>>
  \/ \E p \in 1..Len(found) :
       /\ found[p] = r
       /\ r # <<>>
       /\ \A q \in 1..(p - 1) : found[q] = <<>>

C10_OnlyMeta(d) ==
  \A i \in 1..(Len(CandSlots) + Len(HeadingSlots)) :
    C10_Found(d, FALSE)[i] = <<>>

\* C10 as stated: the extractor returns the first non-empty text of the
\* stages, and exactly the content of the meta description tag when the
\* containers and headings yield nothing and that tag has content.
C10_ExactMetaContent ==
  (call = "description") =>
    /\ ret.kind = "returned"
    /\ C10_FirstNonEmpty(C10_Found(doc, FALSE), ret.value)
    /\ (/\ C10_OnlyMeta(doc)
        /\ desc_elem(doc, "description").present
        /\ desc_elem(doc, "description").has_text
        /\ desc_elem(doc, "description").text # <<>>) =>
         ret.value = desc_elem(doc, "description").text

\* C10, amended: the extractor returns the first non-empty text of the
\* stages in their order, a meta tag's text being its content without
\* leading and trailing whitespace; when the containers and headings yield
\* nothing and the meta description tag's content is not only whitespace it
\* returns that content stripped; when no stage yields text it returns "".
C10_StrippedMetaContent ==
  (call = "description") =>
    /\ ret.kind = "returned"
    /\ C10_FirstNonEmpty(C10_Found(doc, TRUE), ret.value)
    /\ (/\ C10_OnlyMeta(doc)
        /\ desc_elem(doc, "description").present
        /\ desc_elem(doc, "description").has_text
        /\ \E i \in 1..Len(desc_elem(doc, "description").text) :
             desc_elem(doc, "description").text[i] # " ") =>
         C10_Stripped(desc_elem(doc, "description").text, ret.value)
    /\ (\A i \in 1..Len(C10_Found(doc, TRUE)) :
          C10_Found(doc, TRUE)[i] = <<>>) => ret.value = <<>>

C10_Witness ==
  /\ call = "description"
  /\ C10_OnlyMeta(doc)
  /\ desc_elem(doc, "description").text = <<" ", "description", " ">>
  /\ desc_elem(doc, "og:description").text = <<"og:description">>
  /\ ret.value = <<"description">>

\* C13: C13_RowFailed holds of a holdings row that cannot be parsed into a
\* full record: it has fewer cells than the three columns.
C13_RowFailed(r) == r.ncells < 3

\* C13: when some row of the holdings table fails to parse, the result the
\* holdings extractor returns is the empty sequence; a returned sequence
\* never holds a row-record lacking one of the keys Symbol, Holding, Share,
\* Url.
C13_RowFailureEmptiesResult ==
  (call = "holdings" /\ ret.kind = "returned") =>
    /\ (\E i \in 1..Len(doc.holding_section.rows) :
          C13_RowFailed(doc.holding_section.rows[i])) => ret.value = <<>>
    /\ \A i \in 1..Len(ret.value) :
         DOMAIN ret.value[i] = {"Symbol", "Holding", "Share", "Url"}

\* C14: the process reads the catalog file at most once, however many
\* clients it constructs.
C14_CatalogReadAtMostOnce == file_reads <= 1

\* C15: a target GET answered with a status other than 200 ends the call
\* with the error carrying that status and its reason, which is not the
\* bot-protection error; the response is not scanned for markers, the
\* alternate engine is not invoked and no debug capture is written, whatever
\* the response's body holds.
C15_StatusErrorBeforeDetection ==
  (resp.status \notin {0, 200}) =>
    /\ pc = "raised"
    /\ outcome.kind = "raised"
    /\ outcome.error = "Exception: response"
    /\ outcome.value = <<StatusStr(resp.status), Reason(resp.status)>>
    /\ outcome # Raised("Exception: bot-protection")
    /\ ~is_blocked
    /\ altCalls = 0
    /\ ~alt.called
    /\ \A i \in 1..Len(log) : log[i] \notin {"debug_write", "alt"}

C15_Witness ==
  /\ resp.status = 403
  /\ HasMarkerAnyCase(resp.text)
  /\ debug_path
  /\ outcome.value = <<"403", "Forbidden">>

C16_IsStep(e) == e \in {"headers", "prime", "get"}

\* C16: a call of _fetch_html refreshes the headers, then issues the
\* priming request, then the target GET, in that order; a failed priming
\* request leaves a debug message only, the target GET follows it, and the
\* call ends as the target GET's response decides.
C16_PrimingNeverAborts ==
  LET steps == SelectSeq(log, C16_IsStep) IN
  /\ \E n \in 0..3 : steps = SubSeq(<<"headers", "prime", "get">>, 1, n)
  /\ (pc = "get") => (Len(steps) = 2)
  /\ (pc \in {"alt", "done"}) => (Len(steps) = 3)
  /\ (pc = "raised" /\ outcome # Raised("InvalidETFException")) =>
       (Len(steps) = 3)
  /\ \A i \in 1..Len(log) :
       (log[i] = "debug") =>
         /\ i > 1
         /\ log[i - 1] = "prime"
         /\ IF i = Len(log) THEN pc = "get" ELSE log[i + 1] = "get"
  /\ (pc = "raised" /\ resp.status \notin {0, 200}) =>
       (outcome = response_error(resp.status))
  /\ (pc = "done" /\ ~is_blocked) => (outcome = Returned(resp.text))

C16_Witness ==
  /\ pc = "done"
  /\ \E i \in 1..Len(log) : log[i] = "debug"
  /\ outcome = Returned(<<"h">>)

\* The tasks that hold the lock, and those whose increment is stored.
C12_InCritical(i) == tpc[i] \in {"locked", "loaded", "stored", "counted"}

C12_Counted(i) == tpc[i] \in {"stored", "counted", "done"}

C12_Count(l, n) == Cardinality({k \in 1..Len(l) : l[k] = n})

C11_EsgTwiceIdentical ==
  (Len(esg_rets) = 2) => (esg_rets[1] = esg_rets[2])

\* C11, amended: on a parsed document that has an ESG element the ESG
\* extractor reads that document only: it fetches nothing, and its
\* successive calls return identical records.
C11_EsgPureOnOwnElement ==
  self_soup.elem =>
    /\ epc # "fetch"
    /\ fetched = <<>>
    /\ (epc \in {"parse", "returned"}) => (esg_soup = self_soup)
    /\ \A k \in 1..Len(esg_rets) : esg_rets[k] = esg_rets[1]

C11_Witness ==
  /\ self_soup.elem
  /\ self_soup.blocks # EmptyDict
  /\ Len(esg_rets) = 2
  /\ esg_rets[2] = self_soup.blocks

\* The soup the call works on: the document when it has an ESG element;
\* else the first sub-page, in the order of the URLs, that was fetched and
\* has one, a failed fetch being passed over; else the document.
C17_SoupChoice ==
  IF self_soup.elem
  THEN fetched = <<>> /\ esg_soup = self_soup
  ELSE /\ Len(fetched) \in 1..Len(esg_urls)
       /\ \A k \in 1..Len(fetched) : fetched[k].url = esg_urls[k]
       /\ \A k \in 1..(Len(fetched) - 1) : fetched[k].kind # "esg"
       /\ IF fetched[Len(fetched)].kind = "esg"
          THEN esg_soup.elem
          ELSE Len(fetched) = Len(esg_urls) /\ esg_soup = self_soup

C17_FilledContainerTables(soup) ==
  {t \in soup.tables : t.inside /\ t.id # "" /\ t.rows # EmptyDict}

C17_FilledLegacyTables(soup) ==
  {t \in soup.tables :
     /\ \E i \in 1..Len(legacy_table_ids) : legacy_table_ids[i] = t.id
     /\ t.thead # EmptyDict}

C17_Holds(r, T, field) ==
  /\ DOMAIN r = {t.id : t \in T}
  /\ \A t \in T : r[t.id] = t[field]

C17_FromTables(r, soup) ==
  IF C17_FilledContainerTables(soup) # {}
  THEN C17_Holds(r, C17_FilledContainerTables(soup), "rows")
  ELSE C17_Holds(r, C17_FilledLegacyTables(soup), "thead")

\* C17 as stated: the call settles on its soup, then returns the structured
\* blocks when they yield something, the tables' records only when they
\* yield nothing.
C17_BlocksBeforeLegacyIds ==
  (epc = "returned") =>
    /\ C17_SoupChoice
    /\ IF esg_soup.blocks # EmptyDict
       THEN esg_rets[Len(esg_rets)] = esg_soup.blocks
       ELSE C17_FromTables(esg_rets[Len(esg_rets)], esg_soup)

\* C17, amended: the call settles on its soup, then returns the first
\* non-empty result of: the container's tables that carry an id, the tables
\* with a legacy id, the structured blocks; the blocks are returned only
\* when no table yielded anything.
C17_TablesBeforeBlocks ==
  (epc = "returned") =>
    /\ C17_SoupChoice
    /\ IF C17_FilledContainerTables(esg_soup) # {}
          \/ C17_FilledLegacyTables(esg_soup) # {}
       THEN C17_FromTables(esg_rets[Len(esg_rets)], esg_soup)
       ELSE esg_rets[Len(esg_rets)] = esg_soup.blocks

C17_Witness ==
  /\ epc = "returned"
  /\ ~self_soup.elem
  /\ Len(fetched) = 2
  /\ fetched[1].kind = "raised"
  /\ fetched[2].kind = "esg"
  /\ esg_soup.blocks # EmptyDict
  /\ C17_FilledContainerTables(esg_soup) = {}
  /\ C17_FilledLegacyTables(esg_soup) # {}
  /\ "esg-table" \in DOMAIN esg_rets[Len(esg_rets)]

====
